---- MODULE Spec2Model ----
(***************************************************************************)
(* EthiopiaFIData (src/src/data_loader.py): a facade over one in-memory    *)
(* table (self.df) loaded from a file, with query accessors, add_records   *)
(* and save_enriched.                                                      *)
(*                                                                         *)
(* A table is [cols |-> set of column names, rows |-> sequence of rows],   *)
(* a row being a function from the columns to cells.  Cells are strings;   *)
(* NA is the missing marker (NaN / NaT / pd.NA).  A table returned by an   *)
(* accessor also carries `index`, the labels (positions in self.df) of     *)
(* its rows, as a pandas frame does.                                       *)
(***************************************************************************)
EXTENDS Integers, Sequences, FiniteSets, TLC

VARIABLES
    fs,         \* the file system: path -> file, or NoFile
    facade,     \* "none" | "ready": whether the last construction produced an object
    main_path,  \* self.main_path of the facade
    ref_path,   \* self.ref_path of the facade
    df,         \* self.df, the main table
    ref_codes,  \* self.ref_codes
    ret,        \* the last call and its outcome: [op, arg, kind, val]
    saved,      \* path -> shape of the table at the last save_enriched to it
    nsaves      \* number of save_enriched calls so far

vars == <<fs, facade, main_path, ref_path, df, ref_codes, ret, saved, nsaves>>

----------------------------------------------------------------------------
(* Bounds of the model *)

MaxInitRows == 1    \* rows of the main dataset file
MaxNew == 2         \* records handed to one add_records call
MaxRows == 3        \* add_records is not called beyond this many rows
MaxSaves == 1       \* save_enriched calls in one run
MaxQRows == 3       \* rows of a table under SpecQuery
MaxLongRows == 21   \* rows of each record type in a long table under SpecQuery

----------------------------------------------------------------------------
(* Values *)

NA == "<NA>"
None == "None"
\* a path that names no file, a facade that holds no table, a path never saved to
NoFile == [absent |-> TRUE]
NoTable == [absent |-> TRUE]
NoShape == [absent |-> TRUE]

\* valid date texts, and what they are ordered by
Dates == {"2011-03", "2011-09"}
DateRank(d) == IF d = "2011-03" THEN 1 ELSE 2
Year(d) == "2011"

DATE_COLS == <<"observation_date", "event_date", "date">>
DateColSet == {DATE_COLS[i] : i \in 1..3}

RecordTypes == {"observation", "event", "impact_link"}

\* column sets of the main dataset file that the model draws from
Schemas ==
    { {},
      {"date"},
      {"record_type", "pillar"} }

\* column sets of the workbook the model draws from
WorkbookSchemas == { {}, {"pillar"} }

\* column sets of the tables the accessors are applied to under SpecQuery
QuerySchemas ==
    { {},
      {"pillar"},
      {"indicator"},
      {"indicator_code", "indicator"},
      {"record_type", "pillar"},
      {"record_type", "confidence"},
      {"record_type", "date"},
      {"event_date", "date"},
      {"record_type", "indicator"} }

\* a field of a new record that is no column of any schema
ExtraField == "region"

\* texts a cell of the main dataset file may hold
FileTexts(c) ==
    IF c = "record_type" THEN {"observation", "impact_link"}
    ELSE IF c \in DateColSet THEN {"2011-09", "bad"}
    ELSE {"B", ""}

\* cells a loaded table may hold
LoadedCells(c) ==
    IF c = "record_type" THEN RecordTypes
    ELSE IF c \in DateColSet THEN Dates \cup {NA}
    ELSE {"A", "B", NA}

\* values a new record may supply for a field
RecordValues(c) ==
    IF c = "record_type" THEN {"event"}
    ELSE IF c \in DateColSet THEN {"2011-03"}
    ELSE IF c = ExtraField THEN {"X"}
    ELSE {"A"}

Min2(a, b) == IF a <= b THEN a ELSE b

----------------------------------------------------------------------------
(* Files: read_csv / read_excel / to_csv / to_datetime *)

Suffix(p) ==
    IF p \in {"data.xlsx", "out.xlsx"} THEN ".xlsx" ELSE ".csv"

IsExcelSuffix(p) == Suffix(p) \in {".xlsx", ".xls"}

\* a cell as to_csv writes it: the missing marker becomes the empty field
FormatCell(v) == IF v = NA THEN "" ELSE v

\* a field as read_csv / read_excel read it: empty and NA texts are missing
ParseCell(t) == IF t \in {"", "NA", "<NA>", "NaN"} THEN NA ELSE t

\* pd.to_datetime(..., errors='coerce') on one cell
to_datetime(v) == IF v \in Dates THEN v ELSE NA

\* to_csv without index=False: the row labels are written as a first, unnamed column
to_csvWithIndex(t) ==
    [fmt |-> "csv", header |-> t.cols \cup {"Unnamed: 0"},
     lines |-> [i \in 1..Len(t.rows) |->
                  [c \in t.cols \cup {"Unnamed: 0"} |->
                      IF c \in t.cols THEN FormatCell(t.rows[i][c]) ELSE "0"]]]

\* DataFrame.to_csv(output_path, index=False), line 201
to_csv(t) ==
    [fmt |-> "csv", header |-> t.cols,
     lines |-> [i \in 1..Len(t.rows) |-> [c \in t.cols |-> FormatCell(t.rows[i][c])]]]

ParseLines(f) ==
    [cols |-> f.header,
     rows |-> [i \in 1..Len(f.lines) |-> [c \in f.header |-> ParseCell(f.lines[i][c])]]]

\* pd.read_csv: a text file with no header field has no columns to parse
CanReadCsv(f) == f.fmt = "csv" /\ f.header # {}
\* pd.read_excel: the file must be a workbook
CanReadExcel(f) == f.fmt = "xlsx"

CanRead(p, f) == IF IsExcelSuffix(p) THEN CanReadExcel(f) ELSE CanReadCsv(f)

\* lines 52-56: every date column present is coerced
StandardizeDates(t) ==
    [cols |-> t.cols,
     rows |-> [i \in 1..Len(t.rows) |->
                 [c \in t.cols |-> IF c \in DateColSet THEN to_datetime(t.rows[i][c])
                                   ELSE t.rows[i][c]]]]

Shape(t) == [cols |-> t.cols, n |-> Len(t.rows)]

----------------------------------------------------------------------------
(* Outcomes of a call *)

Return(op, v) == [op |-> op, arg |-> None, kind |-> "return", val |-> v]
Raise(op, e) == [op |-> op, arg |-> None, kind |-> "raise", val |-> e]

EmptyFrame == [cols |-> {}, index |-> <<>>, rows |-> <<>>]

----------------------------------------------------------------------------
(* pandas helpers *)

\* self.df[c] as a sequence of cells (the caller has checked c \in t.cols)
Column(t, c) == [i \in 1..Len(t.rows) |-> t.rows[i][c]]

\* self.df.get(c, pd.Series()): the empty series when the column is absent
GetColumn(t, c) == IF c \in t.cols THEN Column(t, c) ELSE <<>>

\* positions i >= from of self.df whose record_type is rt, in table order
RECURSIVE RowsOfType(_, _, _)
RowsOfType(t, rt, from) ==
    IF from > Len(t.rows) THEN <<>>
    ELSE (IF t.rows[from]["record_type"] = rt THEN <<from>> ELSE <<>>)
         \o RowsOfType(t, rt, from + 1)

\* the cells of column c at the positions idx
Take(t, idx, c) == [k \in 1..Len(idx) |-> t.rows[idx[k]][c]]

\* distinct cells of a series in order of first appearance
RECURSIVE Uniques(_, _)
Uniques(s, seen) ==
    IF s = <<>> THEN <<>>
    ELSE IF Head(s) \in seen THEN Uniques(Tail(s), seen)
    ELSE <<Head(s)>> \o Uniques(Tail(s), seen \cup {Head(s)})

Count(s, v) == Cardinality({i \in 1..Len(s) : s[i] = v})

\* insert entry e into a sequence sorted by descending count, after its equals
RECURSIVE InsertDesc(_, _)
InsertDesc(sorted, e) ==
    IF sorted = <<>> THEN <<e>>
    ELSE IF Head(sorted).count >= e.count THEN <<Head(sorted)>> \o InsertDesc(Tail(sorted), e)
    ELSE <<e>> \o sorted

RECURSIVE SortDesc(_)
SortDesc(entries) ==
    IF entries = <<>> THEN <<>>
    ELSE InsertDesc(SortDesc(SubSeq(entries, 1, Len(entries) - 1)), entries[Len(entries)])

\* Series.value_counts(dropna=...): one entry per distinct cell, most frequent first
value_counts(s, dropna) ==
    LET u == Uniques(s, IF dropna THEN {NA} ELSE {})
    IN  SortDesc([k \in 1..Len(u) |-> [value |-> u[k], count |-> Count(s, u[k])]])

\* .to_dict(): the mapping from cell to count
to_dict(vc) ==
    [v \in {vc[k].value : k \in 1..Len(vc)} |->
        vc[CHOOSE k \in 1..Len(vc) : vc[k].value = v].count]

\* Series.min() / .max() of a date series: missing cells are skipped
ValidDates(s) == {s[i] : i \in 1..Len(s)} \ {NA}
SeriesMin(s) ==
    IF ValidDates(s) = {} THEN NA
    ELSE CHOOSE d \in ValidDates(s) : \A e \in ValidDates(s) : DateRank(d) <= DateRank(e)
SeriesMax(s) ==
    IF ValidDates(s) = {} THEN NA
    ELSE CHOOSE d \in ValidDates(s) : \A e \in ValidDates(s) : DateRank(d) >= DateRank(e)

\* DataFrame.head(n)
head(s, n) == SubSeq(s, 1, Min2(n, Len(s)))

\* the frame of the rows at positions idx, restricted to the columns cs
Frame(t, idx, cs) ==
    [cols |-> cs, index |-> idx,
     rows |-> [k \in 1..Len(idx) |-> [c \in cs |-> t.rows[idx[k]][c]]]]

----------------------------------------------------------------------------
(* _get_date_column, lines 204-208 *)

RECURSIVE FirstPresent(_, _, _)
FirstPresent(cands, cols, i) ==
    IF i > Len(cands) THEN None
    ELSE IF cands[i] \in cols THEN cands[i]
    ELSE FirstPresent(cands, cols, i + 1)

_get_date_column(t) == FirstPresent(DATE_COLS, t.cols, 1)

\* the preference reversed
IndicatorColumnSwapped(cols) ==
    IF "indicator" \in cols THEN "indicator"
    ELSE IF "indicator_code" \in cols THEN "indicator_code"
    ELSE None

\* the indicator column of lines 92 and 157
IndicatorColumn(cols) ==
    IF "indicator_code" \in cols THEN "indicator_code"
    ELSE IF "indicator" \in cols THEN "indicator"
    ELSE None

----------------------------------------------------------------------------
(* The accessors, as functions of self.df *)

\* lines 62-70; self.df['record_type'] and self.df['pillar'] raise KeyError
\* when the column is absent
get_record_counts(t) ==
    IF "record_type" \notin t.cols \/ "pillar" \notin t.cols
    THEN Raise("get_record_counts", "KeyError")
    ELSE Return("get_record_counts",
            [by_record_type |-> to_dict(value_counts(Column(t, "record_type"), TRUE)),
             by_pillar |-> to_dict(value_counts(Column(t, "pillar"), FALSE)),
             by_source_type |-> to_dict(value_counts(GetColumn(t, "source_type"), FALSE)),
             by_confidence |-> to_dict(value_counts(GetColumn(t, "confidence"), FALSE))])

\* lines 72-88
get_temporal_range(t) ==
    LET date_col == _get_date_column(t)
    IN  IF date_col = None
        THEN Return("get_temporal_range", [error |-> "No date column found"])
        ELSE IF "record_type" \notin t.cols
        THEN Raise("get_temporal_range", "KeyError")
        ELSE LET obs_dates == Take(t, RowsOfType(t, "observation", 1), date_col)
                 event_dates == Take(t, RowsOfType(t, "event", 1), date_col)
             IN  Return("get_temporal_range",
                    [overall_min |-> SeriesMin(Column(t, date_col)),
                     overall_max |-> SeriesMax(Column(t, date_col)),
                     observations_min |-> IF obs_dates # <<>> THEN SeriesMin(obs_dates) ELSE None,
                     observations_max |-> IF obs_dates # <<>> THEN SeriesMax(obs_dates) ELSE None,
                     events_min |-> IF event_dates # <<>> THEN SeriesMin(event_dates) ELSE None,
                     events_max |-> IF event_dates # <<>> THEN SeriesMax(event_dates) ELSE None])

\* lines 90-99: the result is the frame of (value, count) rows, in value_counts order
list_unique_indicators(t) ==
    LET indicator_col == IndicatorColumn(t.cols)
    IN  IF indicator_col = None
        THEN Return("list_unique_indicators", [cols |-> {}, rows |-> <<>>])
        ELSE Return("list_unique_indicators",
                [cols |-> {indicator_col, "count"},
                 rows |-> value_counts(Column(t, indicator_col), TRUE)])

\* sort_values(date_col): ascending, missing dates last, equal keys in table order
SortKey(v) == IF v = NA THEN Cardinality(Dates) + 1 ELSE DateRank(v)

RECURSIVE InsertAsc(_, _, _, _)
InsertAsc(t, c, sorted, i) ==
    IF sorted = <<>> THEN <<i>>
    ELSE IF SortKey(t.rows[Head(sorted)][c]) <= SortKey(t.rows[i][c])
    THEN <<Head(sorted)>> \o InsertAsc(t, c, Tail(sorted), i)
    ELSE <<i>> \o sorted

RECURSIVE sort_values(_, _, _)
sort_values(t, idx, c) ==
    IF idx = <<>> THEN <<>>
    ELSE InsertAsc(t, c, sort_values(t, SubSeq(idx, 1, Len(idx) - 1), c), idx[Len(idx)])

HEAD_ROWS == 20

\* lines 113-114
EventCols(date_col) ==
    {"category", IF date_col # None THEN date_col ELSE "event_date", "description",
     "event_description", "notes", "text", "source_name", "event_name"}

\* lines 130-131
LinkCols ==
    {"parent_id", "pillar", "related_indicator", "impact_direction",
     "impact_magnitude", "lag_months", "evidence_basis"}

\* lines 101-121
get_events_summary(t) ==
    IF "record_type" \notin t.cols THEN Raise("get_events_summary", "KeyError")
    ELSE LET events == RowsOfType(t, "event", 1)
             date_col == _get_date_column(t)
             ordered == IF date_col # None THEN sort_values(t, events, date_col) ELSE events
             available_cols == EventCols(date_col) \cap t.cols
         IN  IF events = <<>> THEN Return("get_events_summary", EmptyFrame)
             ELSE IF available_cols = {}
             THEN Return("get_events_summary", Frame(t, head(ordered, HEAD_ROWS), t.cols))
             ELSE Return("get_events_summary", Frame(t, head(ordered, HEAD_ROWS), available_cols))

\* lines 123-137
get_impact_links_summary(t) ==
    IF "record_type" \notin t.cols THEN Raise("get_impact_links_summary", "KeyError")
    ELSE LET links == RowsOfType(t, "impact_link", 1)
             available_cols == LinkCols \cap t.cols
         IN  IF links = <<>> THEN Return("get_impact_links_summary", EmptyFrame)
             ELSE IF available_cols = {}
             THEN Return("get_impact_links_summary", Frame(t, head(links, HEAD_ROWS), t.cols))
             ELSE Return("get_impact_links_summary", Frame(t, head(links, HEAD_ROWS), available_cols))

\* pd.Grouper(key=date_col, freq=freq): the period a date falls in
Freqs == {"Y", "M"}
Bucket(d, freq) == IF freq = "Y" THEN Year(d) ELSE d

\* positions of idx whose cell in column c is not missing (dropna(subset=[c]))
RECURSIVE dropna(_, _, _)
dropna(t, idx, c) ==
    IF idx = <<>> THEN <<>>
    ELSE (IF t.rows[Head(idx)][c] # NA THEN <<Head(idx)>> ELSE <<>>) \o dropna(t, Tail(idx), c)

\* lines 139-178: the outcome is the diagnostic printed, or the counts plotted
plot_temporal_coverage(t, freq) ==
    LET date_col == _get_date_column(t)
    IN  IF date_col = None
        THEN Return("plot_temporal_coverage", [plotted |-> FALSE, msg |-> "No date column for plotting"])
        ELSE IF "record_type" \notin t.cols
        THEN Raise("plot_temporal_coverage", "KeyError")
        ELSE LET obs == RowsOfType(t, "observation", 1)
                 dated == dropna(t, obs, date_col)
                 indicator_col == IndicatorColumn(t.cols)
                 keep == IF indicator_col = None THEN <<>> ELSE dropna(t, dated, indicator_col)
                 groups == {<<Bucket(t.rows[keep[k]][date_col], freq),
                              t.rows[keep[k]][indicator_col]>> : k \in 1..Len(keep)}
                 grouped == [g \in groups |->
                               Cardinality({k \in 1..Len(keep) :
                                   <<Bucket(t.rows[keep[k]][date_col], freq),
                                     t.rows[keep[k]][indicator_col]>> = g})]
             IN  IF obs = <<>>
                 THEN Return("plot_temporal_coverage", [plotted |-> FALSE, msg |-> "No observations to plot"])
                 ELSE IF dated = <<>>
                 THEN Return("plot_temporal_coverage",
                        [plotted |-> FALSE, msg |-> "No observations with valid dates for plotting"])
                 ELSE IF indicator_col = None
                 THEN Return("plot_temporal_coverage",
                        [plotted |-> FALSE, msg |-> "No indicator_code or indicator column for plotting"])
                 ELSE IF groups = {}
                 THEN Return("plot_temporal_coverage",
                        [plotted |-> FALSE, msg |-> "No data to plot after grouping"])
                 ELSE Return("plot_temporal_coverage", [plotted |-> TRUE, bars |-> grouped])

----------------------------------------------------------------------------
(* add_records, lines 180-195 *)

\* pd.DataFrame(new_records): the columns are the union of the records' keys,
\* and a key a record lacks is missing in its row
DataFrame(recs) ==
    LET keys == UNION {DOMAIN recs[i] : i \in 1..Len(recs)}
    IN  [cols |-> keys,
         rows |-> [i \in 1..Len(recs) |->
                     [c \in keys |-> IF c \in DOMAIN recs[i] THEN recs[i][c] ELSE NA]]]

\* lines 188-190: every column of self.df that new_df lacks is added, all missing
AlignColumns(new_df, cols) ==
    [cols |-> new_df.cols \cup cols,
     rows |-> [i \in 1..Len(new_df.rows) |->
                 [c \in new_df.cols \cup cols |->
                     IF c \in new_df.cols THEN new_df.rows[i][c] ELSE NA]]]

\* the selection left out: new_df as it is
SelectColumnsKeepAll(t, cs) == t

\* new_df[self.df.columns]
SelectColumns(t, cs) ==
    [cols |-> cs, rows |-> [i \in 1..Len(t.rows) |-> [c \in cs |-> t.rows[i][c]]]]

\* the rows of a frame over the columns cs, a column the frame lacks being missing
Reindex(t, cs) ==
    [i \in 1..Len(t.rows) |-> [c \in cs |-> IF c \in t.cols THEN t.rows[i][c] ELSE NA]]

\* the frames in the other order: the rows of b, then the rows of a
concatSwapped(a, b) ==
    [cols |-> a.cols \cup b.cols,
     rows |-> Reindex(b, a.cols \cup b.cols) \o Reindex(a, a.cols \cup b.cols)]

\* pd.concat([a, b], ignore_index=True): the rows of a, then the rows of b, over
\* the union of their columns
concat(a, b) ==
    [cols |-> a.cols \cup b.cols,
     rows |-> Reindex(a, a.cols \cup b.cols) \o Reindex(b, a.cols \cup b.cols)]

add_records(t, new_records) ==
    IF new_records = <<>> THEN t
    ELSE concat(t, SelectColumns(AlignColumns(DataFrame(new_records), t.cols), t.cols))

\* the records a caller may hand over: any fields among the columns and ExtraField
AllRecordValues ==
    UNION {RecordValues(c) : c \in UNION Schemas \cup UNION QuerySchemas \cup {ExtraField}}
Records(cols) ==
    UNION { {r \in [S -> AllRecordValues] : \A c \in S : r[c] \in RecordValues(c)} :
            S \in SUBSET (cols \cup {ExtraField}) }

RecordSeqs(cols, n) == UNION {[1..k -> Records(cols)] : k \in 0..n}

----------------------------------------------------------------------------
(* The file system *)

MainPaths == {"data.csv", "data.xlsx"}
RefPaths == {"ref.csv"}
OutPaths == {"out.csv", "out.xlsx"}
Paths == MainPaths \cup RefPaths \cup OutPaths

RefFile == [fmt |-> "csv", header |-> {"code", "meaning"}, lines |-> <<>>]

\* the lines a dataset file with the columns sch may hold
FileLines(sch) ==
    {l \in [sch -> UNION {FileTexts(c) : c \in sch}] : \A c \in sch : l[c] \in FileTexts(c)}

\* a dataset file at path p: a text file or a workbook, as its extension says
MainFiles(p) ==
    UNION { { [fmt |-> IF IsExcelSuffix(p) THEN "xlsx" ELSE "csv", header |-> sch, lines |-> l] :
              l \in UNION {[1..k -> FileLines(sch)] : k \in 0..MaxInitRows} } :
            sch \in IF IsExcelSuffix(p) THEN WorkbookSchemas ELSE Schemas }

InitFS ==
    UNION { { [q \in Paths |-> IF q = p THEN m ELSE IF q \in RefPaths THEN r ELSE NoFile] :
              m \in MainFiles(p) \cup {NoFile}, r \in {RefFile, NoFile} } :
            p \in MainPaths }

----------------------------------------------------------------------------
(* The state machine *)

NoCall == [op |-> "none", arg |-> None, kind |-> "return", val |-> None]

Init ==
    /\ fs \in InitFS
    /\ facade = "none"
    /\ main_path = None
    /\ ref_path = None
    /\ df = NoTable
    /\ ref_codes = NoTable
    /\ ret = NoCall
    /\ saved = [p \in OutPaths |-> NoShape]
    /\ nsaves = 0

\* __init__, lines 19-60
ConstructFails(mp, rp, e, path) ==
    /\ facade' = "none"
    /\ main_path' = None
    /\ ref_path' = None
    /\ df' = NoTable
    /\ ref_codes' = NoTable
    /\ ret' = [op |-> "__init__", arg |-> [main_path |-> mp, ref_path |-> rp],
               kind |-> "raise", val |-> [error |-> e, path |-> path]]

\* the reference path checked before the main path
ConstructRefFirst(mp, rp) ==
    /\ IF fs[rp] = NoFile THEN ConstructFails(mp, rp, "FileNotFoundError", rp)
       ELSE IF fs[mp] = NoFile THEN ConstructFails(mp, rp, "FileNotFoundError", mp)
       ELSE IF ~CanRead(mp, fs[mp]) THEN ConstructFails(mp, rp, "ReadError", mp)
       ELSE IF ~CanRead(rp, fs[rp]) THEN ConstructFails(mp, rp, "ReadError", rp)
       ELSE /\ facade' = "ready"
            /\ main_path' = mp
            /\ ref_path' = rp
            /\ df' = StandardizeDates(ParseLines(fs[mp]))
            /\ ref_codes' = ParseLines(fs[rp])
            /\ ret' = [op |-> "__init__", arg |-> [main_path |-> mp, ref_path |-> rp],
                       kind |-> "return", val |-> None]
    /\ UNCHANGED <<fs, saved, nsaves>>

Construct(mp, rp) ==
    /\ IF fs[mp] = NoFile THEN ConstructFails(mp, rp, "FileNotFoundError", mp)
       ELSE IF fs[rp] = NoFile THEN ConstructFails(mp, rp, "FileNotFoundError", rp)
       ELSE IF ~CanRead(mp, fs[mp]) THEN ConstructFails(mp, rp, "ReadError", mp)
       ELSE IF ~CanRead(rp, fs[rp]) THEN ConstructFails(mp, rp, "ReadError", rp)
       ELSE /\ facade' = "ready"
            /\ main_path' = mp
            /\ ref_path' = rp
            /\ df' = StandardizeDates(ParseLines(fs[mp]))
            /\ ref_codes' = ParseLines(fs[rp])
            /\ ret' = [op |-> "__init__", arg |-> [main_path |-> mp, ref_path |-> rp],
                       kind |-> "return", val |-> None]
    /\ UNCHANGED <<fs, saved, nsaves>>

New == \E mp \in MainPaths \cup OutPaths, rp \in RefPaths : Construct(mp, rp)

Accessor(result) ==
    /\ facade = "ready"
    /\ ret' = result
    /\ UNCHANGED <<fs, facade, main_path, ref_path, df, ref_codes, saved, nsaves>>

GetRecordCounts == Accessor(get_record_counts(df))
GetTemporalRange == Accessor(get_temporal_range(df))
ListUniqueIndicators == Accessor(list_unique_indicators(df))
GetEventsSummary == Accessor(get_events_summary(df))
GetImpactLinksSummary == Accessor(get_impact_links_summary(df))
PlotTemporalCoverage == \E freq \in Freqs : Accessor(plot_temporal_coverage(df, freq))

AddRecords ==
    /\ facade = "ready"
    /\ \E new_records \in RecordSeqs(df.cols, Min2(MaxNew, MaxRows - Len(df.rows))) :
          /\ df' = add_records(df, new_records)
          /\ ret' = [op |-> "add_records", arg |-> new_records, kind |-> "return",
                     val |-> None]
    /\ UNCHANGED <<fs, facade, main_path, ref_path, ref_codes, saved, nsaves>>

\* save_enriched, lines 197-202
SaveEnriched ==
    /\ facade = "ready"
    /\ nsaves < MaxSaves
    /\ \E output_path \in OutPaths :
          /\ fs' = [fs EXCEPT ![output_path] = to_csv(df)]
          /\ saved' = [saved EXCEPT ![output_path] = Shape(df)]
          /\ ret' = [op |-> "save_enriched", arg |-> output_path, kind |-> "return",
                     val |-> None]
    /\ nsaves' = nsaves + 1
    /\ UNCHANGED <<facade, main_path, ref_path, df, ref_codes>>

Next ==
    \/ New
    \/ GetRecordCounts
    \/ GetTemporalRange
    \/ ListUniqueIndicators
    \/ GetEventsSummary
    \/ GetImpactLinksSummary
    \/ PlotTemporalCoverage
    \/ AddRecords
    \/ SaveEnriched

Spec == Init /\ [][Next]_vars

----------------------------------------------------------------------------
(* The accessors applied to every table of a bounded family *)

\* k event rows followed by m impact_link rows
LongTables ==
    { [cols |-> {"record_type"},
       rows |-> [i \in 1..(k + m) |->
                   [c \in {"record_type"} |-> IF i <= k THEN "event" ELSE "impact_link"]]] :
      k \in 0..MaxLongRows, m \in 0..MaxLongRows }

\* the rows a loaded table with the columns sch may hold
LoadedRows(sch) ==
    {x \in [sch -> UNION {LoadedCells(c) : c \in sch}] : \A c \in sch : x[c] \in LoadedCells(c)}

QueryTables ==
    LongTables \cup
    UNION { { [cols |-> sch, rows |-> r] :
              r \in UNION {[1..k -> LoadedRows(sch)] : k \in 0..MaxQRows} } :
            sch \in QuerySchemas }

\* the facade as constructed from a workbook holding the table
InitQuery ==
    /\ df \in QueryTables
    /\ fs = [q \in Paths |-> IF q = "data.xlsx" THEN [to_csv(df) EXCEPT !.fmt = "xlsx"]
                              ELSE IF q \in RefPaths THEN RefFile ELSE NoFile]
    /\ facade = "ready"
    /\ main_path = "data.xlsx"
    /\ ref_path = "ref.csv"
    /\ ref_codes = ParseLines(RefFile)
    /\ ret = [op |-> "__init__", arg |-> [main_path |-> "data.xlsx", ref_path |-> "ref.csv"],
              kind |-> "return", val |-> None]
    /\ saved = [p \in OutPaths |-> NoShape]
    /\ nsaves = 0

NextQuery ==
    \/ GetRecordCounts
    \/ GetTemporalRange
    \/ ListUniqueIndicators
    \/ GetEventsSummary
    \/ GetImpactLinksSummary
    \/ PlotTemporalCoverage

SpecQuery == InitQuery /\ [][NextQuery]_vars

----------------------------------------------------------------------------
(* What the claims speak of, stated on self.df directly *)

QueryOps ==
    {"get_record_counts", "get_temporal_range", "list_unique_indicators",
     "get_events_summary", "get_impact_links_summary", "plot_temporal_coverage"}

\* positions of the rows whose record_type is rt (none when the column is absent)
RowsWith(rt) ==
    {i \in 1..Len(df.rows) : "record_type" \in df.cols /\ df.rows[i]["record_type"] = rt}

AllRows == 1..Len(df.rows)

\* number of rows whose cell in column c is v
CountIn(c, v) == Cardinality({i \in AllRows : df.rows[i][c] = v})

CellsOf(c) == {df.rows[i][c] : i \in AllRows}

\* earliest / latest valid date of column c over the rows I, NA when there is none
EarliestOver(I, c) ==
    LET D == {df.rows[i][c] : i \in I} \ {NA}
    IN  IF D = {} THEN NA ELSE CHOOSE d \in D : \A e \in D : DateRank(d) <= DateRank(e)
LatestOver(I, c) ==
    LET D == {df.rows[i][c] : i \in I} \ {NA}
    IN  IF D = {} THEN NA ELSE CHOOSE d \in D : \A e \in D : DateRank(d) >= DateRank(e)

\* the date column by the priority observation_date > event_date > date
PriorityDateCol ==
    IF "observation_date" \in df.cols THEN "observation_date"
    ELSE IF "event_date" \in df.cols THEN "event_date"
    ELSE IF "date" \in df.cols THEN "date"
    ELSE None

\* m is the mapping from each cell of column c to the number of rows holding it,
\* the missing marker counted when withNull; the empty mapping when c is absent
IsCountsOf(m, c, withNull) ==
    IF c \notin df.cols THEN DOMAIN m = {}
    ELSE /\ DOMAIN m = CellsOf(c) \ (IF withNull THEN {} ELSE {NA})
         /\ \A v \in DOMAIN m : m[v] = CountIn(c, v)

----------------------------------------------------------------------------
(* C1. Whatever the columns of the main table, every query-time accessor    *)
(* completes without raising, and returns its documented empty or          *)
(* error-shaped result when a column it needs is missing.                  *)
C1_AccessorsTolerateMissingColumns ==
    ret.op \in QueryOps =>
        /\ ret.kind = "return"
        /\ (ret.op = "get_temporal_range" /\ PriorityDateCol = None)
              => DOMAIN ret.val = {"error"}
        /\ (ret.op = "list_unique_indicators"
              /\ "indicator_code" \notin df.cols /\ "indicator" \notin df.cols)
              => ret.val.rows = <<>>
        /\ (ret.op \in {"get_events_summary", "get_impact_links_summary"}
              /\ "record_type" \notin df.cols)
              => ret.val.rows = <<>>

(* C3. get_temporal_range uses the first date column present in the order  *)
(* observation_date > event_date > date; with none present it returns the *)
(* error-shaped mapping; otherwise it returns the overall min/max of that  *)
(* column and the min/max over the observation rows and over the event     *)
(* rows, each restricted value null when no row of that type exists.       *)
C3_TemporalRange ==
    ret.op = "get_temporal_range" =>
        /\ ret.kind = "return"
        /\ IF PriorityDateCol = None THEN DOMAIN ret.val = {"error"}
           ELSE /\ ret.val.overall_min = EarliestOver(AllRows, PriorityDateCol)
                /\ ret.val.overall_max = LatestOver(AllRows, PriorityDateCol)
                /\ ret.val.observations_min =
                      (IF RowsWith("observation") = {} THEN None
                       ELSE EarliestOver(RowsWith("observation"), PriorityDateCol))
                /\ ret.val.observations_max =
                      (IF RowsWith("observation") = {} THEN None
                       ELSE LatestOver(RowsWith("observation"), PriorityDateCol))
                /\ ret.val.events_min =
                      (IF RowsWith("event") = {} THEN None
                       ELSE EarliestOver(RowsWith("event"), PriorityDateCol))
                /\ ret.val.events_max =
                      (IF RowsWith("event") = {} THEN None
                       ELSE LatestOver(RowsWith("event"), PriorityDateCol))

(* C4. get_record_counts returns a mapping with exactly the keys           *)
(* by_record_type, by_pillar, by_source_type, by_confidence, each value    *)
(* mapping a category to the number of rows carrying it; the last three    *)
(* count the rows whose value is missing, and by_source_type and           *)
(* by_confidence are empty when their column is absent.                    *)
C4_RecordCounts ==
    ret.op = "get_record_counts" =>
        /\ ret.kind = "return"
        /\ DOMAIN ret.val = {"by_record_type", "by_pillar", "by_source_type", "by_confidence"}
        /\ IsCountsOf(ret.val.by_record_type, "record_type", FALSE)
        /\ IsCountsOf(ret.val.by_pillar, "pillar", TRUE)
        /\ IsCountsOf(ret.val.by_source_type, "source_type", TRUE)
        /\ IsCountsOf(ret.val.by_confidence, "confidence", TRUE)

\* the result of a summary holds at most 20 rows, all of record type rt, and
\* none when no row has that type
IsSummaryOf(rt) ==
    /\ ret.kind = "return"
    /\ Len(ret.val.rows) <= 20
    /\ \A k \in 1..Len(ret.val.index) : ret.val.index[k] \in RowsWith(rt)
    /\ RowsWith(rt) = {} => ret.val.rows = <<>>

(* C5. For every table, get_events_summary returns at most 20 rows, all of *)
(* them event rows, and get_impact_links_summary at most 20 rows, all of   *)
(* them impact_link rows; each returns an empty result when no row matches.*)
C5_SummariesCapped ==
    /\ ret.op = "get_events_summary" => IsSummaryOf("event")
    /\ ret.op = "get_impact_links_summary" => IsSummaryOf("impact_link")

\* C1 is the only way C3, C4 and C5 fail: a call that returns returns what they say
ReturnedAsClaimed ==
    ret.kind = "return" => (C3_TemporalRange /\ C4_RecordCounts /\ C5_SummariesCapped)

\* an accessor raises only for want of record_type, or of pillar in get_record_counts
RaisesOnlyKeyError ==
    ret.kind = "raise" =>
        /\ ret.val = "KeyError"
        /\ "record_type" \notin df.cols
              \/ (ret.op = "get_record_counts" /\ "pillar" \notin df.cols)

\* more than 20 rows match and 20 are returned
SummaryTruncated ==
    /\ ret.op = "get_events_summary"
    /\ Cardinality(RowsWith("event")) > 20
    /\ Len(ret.val.rows) = 20

\* the indicator column by the preference indicator_code > indicator
PreferredIndicatorCol ==
    IF "indicator_code" \in df.cols THEN "indicator_code"
    ELSE IF "indicator" \in df.cols THEN "indicator"
    ELSE None

(* C9. list_unique_indicators uses indicator_code when present, else       *)
(* indicator; with neither it returns an empty table; otherwise one row    *)
(* per distinct value of the chosen column with its occurrence count, the  *)
(* rows ordered by descending count.                                       *)
C9_UniqueIndicators ==
    ret.op = "list_unique_indicators" =>
        /\ ret.kind = "return"
        /\ IF PreferredIndicatorCol = None
           THEN ret.val.rows = <<>> /\ ret.val.cols = {}
           ELSE LET r == ret.val.rows
                    values == CellsOf(PreferredIndicatorCol) \ {NA}
                IN  /\ ret.val.cols = {PreferredIndicatorCol, "count"}
                    /\ {r[k].value : k \in 1..Len(r)} = values
                    /\ Len(r) = Cardinality(values)
                    /\ \A k \in 1..Len(r) : r[k].count = CountIn(PreferredIndicatorCol, r[k].value)
                    /\ \A k \in 1..(Len(r) - 1) : r[k].count >= r[k + 1].count

\* both indicator columns present and disagreeing, and the value met first in
\* the table is the rarer one, listed second
C9_Witness ==
    /\ ret.op = "list_unique_indicators"
    /\ {"indicator_code", "indicator"} \subseteq df.cols
    /\ Len(df.rows) = 3
    /\ df.rows[1]["indicator_code"] # df.rows[1]["indicator"]
    /\ Len(ret.val.rows) = 2
    /\ ret.val.rows[1].count = 2
    /\ ret.val.rows[2].count = 1
    /\ ret.val.rows[2].value = df.rows[1]["indicator_code"]

----------------------------------------------------------------------------
(* C2. add_records with a non-empty sequence of n records leaves the table *)
(* with old_count + n rows: the previous rows unchanged and in order, then *)
(* the n new rows in the order given; a new row holds the record's value   *)
(* for every existing column the record supplies, the missing marker for   *)
(* every existing column it lacks, and nothing for any other field.        *)
C2_AddRecordsAppends ==
    [][ (ret'.op = "add_records" /\ ret'.arg # <<>>) =>
          LET n == Len(ret'.arg)
              old_count == Len(df.rows)
          IN  /\ Len(df'.rows) = old_count + n
              /\ \A i \in 1..old_count : df'.rows[i] = df.rows[i]
              /\ \A k \in 1..n :
                    /\ DOMAIN df'.rows[old_count + k] = df.cols
                    /\ \A c \in df.cols :
                          df'.rows[old_count + k][c] =
                             (IF c \in DOMAIN ret'.arg[k] THEN ret'.arg[k][c] ELSE NA)
      ]_vars

\* two records appended to a one-row table, the first with a field that is no
\* column, the second lacking a column
C2_Witness ==
    /\ ret.op = "add_records"
    /\ Len(ret.arg) = 2
    /\ Len(df.rows) = 3
    /\ ExtraField \in DOMAIN ret.arg[1]
    /\ \E c \in df.cols : c \notin DOMAIN ret.arg[2] /\ df.rows[3][c] = NA
    /\ \E c \in df.cols : c \in DOMAIN ret.arg[2] /\ df.rows[3][c] # NA

(* C10. On a constructed facade the column set of the main table never     *)
(* changes, its row count never decreases and every existing row keeps its *)
(* values; the table changes only in an add_records call with a non-empty  *)
(* argument: add_records with no records, the accessors,                   *)
(* plot_temporal_coverage and save_enriched leave it unchanged.            *)
C10_TableOnlyGrows ==
    [][ (facade = "ready" /\ ret'.op # "__init__") =>
          /\ df'.cols = df.cols
          /\ Len(df'.rows) >= Len(df.rows)
          /\ \A i \in 1..Len(df.rows) : df'.rows[i] = df.rows[i]
          /\ df' # df => (ret'.op = "add_records" /\ ret'.arg # <<>>)
          /\ (ret'.op = "add_records" /\ ret'.arg = <<>>) => df' = df
          /\ ret'.op \in QueryOps \cup {"save_enriched"} => df' = df
      ]_vars

\* a save after add_records has grown a one-row table to three rows
C10_Witness ==
    /\ ret.op = "save_enriched"
    /\ facade = "ready"
    /\ Len(df.rows) = 3
    /\ df.cols = {"record_type", "pillar"}

----------------------------------------------------------------------------
(* Construction *)

Exists(p) == fs[p] # NoFile

\* the reader the extension of p selects accepts the file at p
Parses(p) ==
    IF Suffix(p) \in {".xlsx", ".xls"} THEN fs[p].fmt = "xlsx"
    ELSE fs[p].fmt = "csv" /\ fs[p].header # {}

\* the last construction raised the missing-file error naming p and left nothing
MissingFile(p) ==
    /\ ret.kind = "raise"
    /\ ret.val = [error |-> "FileNotFoundError", path |-> p]
    /\ facade = "none"
    /\ df = NoTable
    /\ ref_codes = NoTable

\* the last construction produced a facade holding both tables
LoadedBoth ==
    /\ ret.kind = "return"
    /\ facade = "ready"
    /\ df # NoTable
    /\ ref_codes # NoTable
    /\ Shape(df) = [cols |-> fs[ret.arg.main_path].header,
                    n |-> Len(fs[ret.arg.main_path].lines)]

\* the statement of C6 as claimed: both files exist => both tables are loaded
C6_AsClaimed ==
    ret.op = "__init__" =>
        IF ~Exists(ret.arg.main_path) THEN MissingFile(ret.arg.main_path)
        ELSE IF ~Exists(ret.arg.ref_path) THEN MissingFile(ret.arg.ref_path)
        ELSE LoadedBoth

(* C6. Construction raises a missing-file error naming the path when the   *)
(* main path or the reference path does not exist, the main path checked   *)
(* first, and then loads no table and produces no facade; when both exist  *)
(* it loads both tables, provided the reader selected by each extension    *)
(* accepts its file, and otherwise raises and produces no facade.          *)
C6_Construction ==
    ret.op = "__init__" =>
        IF ~Exists(ret.arg.main_path) THEN MissingFile(ret.arg.main_path)
        ELSE IF ~Exists(ret.arg.ref_path) THEN MissingFile(ret.arg.ref_path)
        ELSE IF Parses(ret.arg.main_path) /\ Parses(ret.arg.ref_path) THEN LoadedBoth
        ELSE ret.kind = "raise" /\ facade = "none" /\ df = NoTable /\ ref_codes = NoTable

\* neither file exists: the error names the main path
C6_Witness ==
    /\ ret.op = "__init__"
    /\ ~Exists(ret.arg.main_path)
    /\ ~Exists(ret.arg.ref_path)
    /\ ret.kind = "raise"
    /\ ret.val.path = ret.arg.main_path

====
